---- MODULE Spec2Model ----
(***************************************************************************)
(* Model of certbot_dns_ngenix/dns_ngenix.py: the _NGENIXClient publish    *)
(* (add_txt_record) and remove (delete_txt_record) workflows against the   *)
(* NGENIX zone API, the backup writer and the propagation waiter.          *)
(*                                                                         *)
(* Strings are sequences of one-character strings, so that the regular     *)
(* expressions and the slicing of the code act on characters.              *)
(***************************************************************************)
EXTENDS Integers, Sequences, FiniteSets, TLC

(* ------------------------------ bounds --------------------------------- *)
MaxLabels == 5
MaxZoneLabels == 2
MaxZones == 2
MaxHelperRecords == 2
MaxCalls == 3

(* --------------------------- program constants ------------------------- *)
\* for i in range(4)
Attempts == 4
\* counter = 15
RetryCounter == 15

(* ------------------------------ strings -------------------------------- *)
Dot == "."
Quote == "\""

\* a.a. ... .a with n labels
RECURSIVE Chain(_)
Chain(n) == IF n = 1 THEN <<"a">> ELSE <<"a", Dot>> \o Chain(n - 1)

\* the domains the caller asks for: a chain of labels, or a chain under
\* another first label
DomainsOf(n) ==
    {Chain(k) : k \in 1..n} \cup {<<"b", Dot>> \o Chain(k) : k \in 1..(n - 1)}
Domains == DomainsOf(MaxLabels)
ZoneNames == DomainsOf(MaxZoneLabels)
\* the label certbot puts in front of the domain ("_acme-challenge")
RecordPrefixes == {<<"_">>}
ValueV == <<"v">>
ValueW == <<"w">>
Contents == {ValueV}

NoMatch == <<"<None>">>

HasDot(s) == \E k \in 1..Len(s) : s[k] = Dot
FirstDot(s) == CHOOSE k \in 1..Len(s) : s[k] = Dot /\ \A j \in 1..(k-1) : s[j] # Dot
LastDot(s) == CHOOSE k \in 1..Len(s) : s[k] = Dot /\ \A j \in (k+1)..Len(s) : s[j] # Dot

NumDots(s) == Cardinality({k \in 1..Len(s) : s[k] = Dot})

RECURSIVE ReSearchGroup(_, _)
\* the same search with greedy prefixes '.*\.': everything up to the last dot
ReSearchGroupGreedy(i, s) ==
    IF i = 0 THEN s
    ELSE IF NumDots(s) < i THEN NoMatch
    ELSE SubSeq(s, LastDot(s) + 1, Len(s))
\* re.search(regex, domain).group(1) where regex is '(.*)' prefixed i times
\* by the lazy '.*?\.': each prefix consumes up to and including the first
\* dot that is left; without enough dots re.search returns None.
ReSearchGroup(i, s) ==
    IF i = 0 THEN s
    ELSE IF ~HasDot(s) THEN NoMatch
    ELSE ReSearchGroup(i - 1, SubSeq(s, FirstDot(s) + 1, Len(s)))

\* the substitution without the leading '\.': re.sub(rf'{domain_zone}$', ...)
ReSubZoneNoDot(zone, name) ==
    LET off == Len(name) - Len(zone)
    IN IF /\ off >= 0
          /\ \A k \in 1..Len(zone) : zone[k] = Dot \/ zone[k] = name[off + k]
       THEN SubSeq(name, 1, off)
       ELSE name
\* re.sub(rf'\.{domain_zone}$', '', record_name): the zone is used as a
\* pattern, so each '.' of the zone matches any character; the pattern has
\* a fixed length and is anchored at the end.
ReSubZoneSuffix(zone, name) ==
    LET L == Len(zone) + 1
        off == Len(name) - L
    IN IF /\ off >= 0
          /\ name[off + 1] = Dot
          /\ \A k \in 1..Len(zone) : zone[k] = Dot \/ zone[k] = name[off + 1 + k]
       THEN SubSeq(name, 1, off)
       ELSE name

(* ------------------------------ records -------------------------------- *)
\* A record is a dict; the optional keys configRef and targetGroupRef are
\* "absent", present without a link ("nolink") or present with one ("link").
Rec(n, t, d, c, g) ==
    [name |-> n, type |-> t, data |-> d, configRef |-> c, targetGroupRef |-> g]

TxtRecord(record_name, record_data) ==
    Rec(record_name, "TXT", record_data, "absent", "absent")

\* the record sets a zone may hold before the first invocation: nothing,
\* balanced records with links, a challenge record left behind, and a
\* challenge record to which the provider attached a configRef
EmptyZone == <<>>
BalancedZone ==
    << Rec(<<"a">>, "A", ValueW, "link", "link"),
       Rec(<<"a">>, "CNAME", ValueW, "absent", "link") >>
LeftoverZone ==
    << TxtRecord(<<"_">>, ValueV), Rec(<<"a">>, "A", ValueW, "nolink", "absent") >>
TaggedZone == << Rec(<<"_">>, "TXT", ValueV, "link", "absent") >>

InitRecordSets == {EmptyZone, BalancedZone, LeftoverZone, TaggedZone}

\* _add_txt_record without the append
AddTxtRecordNoAppend(record_name, record_data, dns_zone_records) ==
    dns_zone_records
\* _add_txt_record with insert(0, new_record)
AddTxtRecordPrepend(record_name, record_data, dns_zone_records) ==
    <<TxtRecord(record_name, record_data)>> \o dns_zone_records
\* _add_txt_record
AddTxtRecord(record_name, record_data, dns_zone_records) ==
    Append(dns_zone_records, TxtRecord(record_name, record_data))

\* a filter on name and type only
DeleteTxtRecordByName(record_name, record_data, dns_zone_records) ==
    LET Keep(record) == ~(record.name = record_name /\ record.type = "TXT")
    IN SelectSeq(dns_zone_records, Keep)
\* dns_zone_records.remove(deleted_record): the first equal record only
DeleteTxtRecordFirst(record_name, record_data, dns_zone_records) ==
    LET deleted_record == TxtRecord(record_name, record_data)
        hits == {k \in 1..Len(dns_zone_records) : dns_zone_records[k] = deleted_record}
    IN IF hits = {} THEN dns_zone_records
       ELSE LET first == CHOOSE k \in hits : \A j \in hits : k <= j
            IN SubSeq(dns_zone_records, 1, first - 1)
                 \o SubSeq(dns_zone_records, first + 1, Len(dns_zone_records))
\* _delete_txt_record: whole-dict comparison
DeleteTxtRecord(record_name, record_data, dns_zone_records) ==
    LET deleted_record == TxtRecord(record_name, record_data)
        Keep(record) == record # deleted_record
    IN SelectSeq(dns_zone_records, Keep)

\* body of the loop of _update_dns_zone_records: if / elif / else
StripLink(record) ==
    IF record.configRef # "absent"
    THEN [record EXCEPT !.configRef = "nolink"]
    ELSE IF record.targetGroupRef # "absent"
    THEN [record EXCEPT !.targetGroupRef = "nolink"]
    ELSE record

StripLinks(records) == [k \in 1..Len(records) |-> StripLink(records[k])]

(* ----------------------------- provider -------------------------------- *)
\* What a request can meet: a 2xx answer with the documented body, a
\* non-2xx answer whose body lacks the key the code reads, a non-2xx answer
\* whose body carries that key, or no answer (requests raises).
Responses == {"ok", "http_error", "http_error_with_body", "network_error"}

Status(resp) ==
    CASE resp = "ok" -> "2xx"
      [] resp \in {"http_error", "http_error_with_body"} -> "non2xx"
      [] OTHER -> "noanswer"

\* try: res = requests.<verb>(...); x = res.json()[key]  except Exception: raise
\* The status code is never looked at.
RequestRaises(resp) == resp \in {"http_error", "network_error"}

\* dig prints one quoted line per TXT value
Quoted(v) == <<Quote>> \o v \o <<Quote>>
DigOutputs ==
    { <<>>, <<Quoted(ValueW)>>, <<Quoted(ValueW), Quoted(ValueV)>> }

\* [txt_record[1:-1] for txt_record in output.splitlines()]
ParseDig(lines) ==
    [k \in 1..Len(lines) |-> SubSeq(lines[k], 2, Len(lines[k]) - 1)]

\* a loop that stops on any answer: while not txt_records
RecordPropagatedAny(record_data, txt_records) == Len(txt_records) > 0
\* while record_data not in txt_records
RecordPropagated(record_data, txt_records) ==
    \E k \in 1..Len(txt_records) : txt_records[k] = record_data

(* ------------------------------- state --------------------------------- *)
Procs == {"A", "B"}
Ops == {"publish", "remove"}

VARIABLES
    zones,        \* the customer's zone list: sequence of [id, name]
    zoneRecords,  \* zone id -> record set held by the provider
    backups,      \* snapshot files written under /tmp/ngenix-dns-zone
    inv,          \* per invocation: the locals of add/delete_txt_record
    calls,        \* invocations started so far
    maxCalls,     \* invocations the caller makes
    concurrent,   \* whether the caller runs invocations side by side
    certDomains,  \* the domains the caller asks a certificate for
    patchLog      \* the replacements the provider accepted, oldest first

vars == <<zones, zoneRecords, backups, inv, calls, maxCalls, concurrent,
          certDomains, patchLog>>

IdleLocal ==
    [ pc |-> "idle", op |-> "none",
      domain |-> <<>>, record_name |-> <<>>, record_content |-> <<>>,
      i |-> 0, domain_zone |-> <<>>, dns_zone_id |-> 0,
      dns_zone_records |-> <<>>, new_record_name |-> <<>>,
      new_dns_zone_records |-> <<>>,
      counter |-> 0, txt_records |-> <<>>,
      result |-> "none", error |-> "none",
      \* history of the invocation
      nReq |-> 0, nListReq |-> 0, nFetchReq |-> 0, nReplaceReq |-> 0,
      nDnsQueries |-> 0,
      allListOk |-> TRUE,
      lastStatus |-> "none", lastRaised |-> FALSE, failedAt |-> 0,
      fetchOk |-> FALSE, replaceAccepted |-> FALSE, nReqAtReplace |-> 0,
      snapshots |-> {}, submitted |-> FALSE,
      seenValue |-> FALSE, snapshotFailed |-> FALSE, patchesAtFetch |-> 0 ]

SetToSeq(S) ==
    LET RECURSIVE Build(_)
        Build(T) == IF T = {} THEN <<>>
                    ELSE LET x == CHOOSE y \in T : TRUE
                         IN <<x>> \o Build(T \ {x})
    IN Build(S)

ZoneList(names) ==
    LET ns == SetToSeq(names)
    IN [k \in 1..Len(ns) |-> [id |-> k, name |-> ns[k]]]

Init ==
    /\ \E names \in SUBSET ZoneNames :
          /\ Cardinality(names) <= MaxZones
          /\ zones = ZoneList(names)
    /\ \E rs \in InitRecordSets :
          zoneRecords = [id \in 1..Len(zones) |-> rs]
    /\ backups = {}
    /\ inv = [p \in Procs |-> IdleLocal]
    /\ calls = 0
    /\ maxCalls = 1
    /\ concurrent = FALSE
    /\ certDomains = Domains
    /\ patchLog = <<>>

(* ------------------------------ helpers -------------------------------- *)
\* bookkeeping of one request to the provider
Sent(s, resp) ==
    [s EXCEPT !.nReq = @ + 1,
              !.lastStatus = Status(resp),
              !.lastRaised = RequestRaises(resp),
              !.failedAt = IF @ = 0 /\ RequestRaises(resp) THEN s.nReq + 1 ELSE @]

\* except Exception as e: raise errors.PluginError(...)
Failed(s, kind) == [s EXCEPT !.pc = "done", !.result = "error", !.error = kind]
Finished(s) == [s EXCEPT !.pc = "done", !.result = "ok"]

(* ------------------------------ actions -------------------------------- *)
\* _perform / _cleanup: the caller starts add_txt_record or delete_txt_record
Start(p) ==
    /\ inv[p].pc \in {"idle", "done"}
    /\ calls < maxCalls
    /\ p = "A" \/ concurrent
    /\ \E op \in Ops, d \in certDomains, prefix \in RecordPrefixes, c \in Contents :
          inv' = [inv EXCEPT ![p] =
                    [IdleLocal EXCEPT !.pc = "resolve", !.op = op, !.domain = d,
                                      !.record_name = prefix \o <<Dot>> \o d,
                                      !.record_content = c]]
    /\ calls' = calls + 1
    /\ UNCHANGED <<zones, zoneRecords, backups, maxCalls, concurrent, certDomains, patchLog>>

\* a handler that raises one iteration late
NextAttemptLate(s) ==
    IF s.i = Attempts
    THEN Failed(s, "zone_lookup")
    ELSE [s EXCEPT !.i = @ + 1]

\* the handler of the inner try of the loop: raise at i == 3, else continue
NextAttempt(s) ==
    IF s.i = Attempts - 1
    THEN Failed(s, "zone_lookup")
    ELSE [s EXCEPT !.i = @ + 1]

\* one iteration of `for i in range(4)`; _get_dns_zone_id included
ResolveZone(p) ==
    LET s == inv[p]
        m == ReSearchGroup(s.i, s.domain)
    IN /\ s.pc = "resolve"
       /\ IF m = NoMatch
          THEN inv' = [inv EXCEPT ![p] = NextAttempt(s)]
          ELSE \E resp \in Responses :
                 LET s1 == [Sent(s, resp) EXCEPT !.domain_zone = m,
                                                !.nListReq = @ + 1,
                                                !.allListOk = @ /\ resp = "ok"]
                     IsZone(dns_zone) == dns_zone.name = m
                     found == SelectSeq(zones, IsZone)
                 IN inv' = [inv EXCEPT ![p] =
                       IF RequestRaises(resp) \/ found = <<>>
                       THEN NextAttempt(s1)
                       ELSE [s1 EXCEPT !.dns_zone_id = Head(found).id,
                                       !.pc = "fetch"]]
       /\ UNCHANGED <<zones, zoneRecords, backups, calls, maxCalls, concurrent, certDomains, patchLog>>

\* _get_dns_zone_records
FetchRecords(p) ==
    LET s == inv[p]
    IN /\ s.pc = "fetch"
       /\ \E resp \in Responses :
            LET s1 == [Sent(s, resp) EXCEPT !.nFetchReq = @ + 1,
                                           !.fetchOk = (resp = "ok")]
            IN inv' = [inv EXCEPT ![p] =
                  IF RequestRaises(resp)
                  THEN Failed(s1, "provider_fetch")
                  ELSE [s1 EXCEPT !.dns_zone_records = zoneRecords[s.dns_zone_id],
                                  !.patchesAtFetch = Len(patchLog),
                                  !.pc = IF s.op = "publish" THEN "backup" ELSE "update"]]
       /\ UNCHANGED <<zones, zoneRecords, backups, calls, maxCalls, concurrent, certDomains, patchLog>>

\* a snapshot error swallowed: the workflow goes on without the file
BackupWriteIgnored(s) ==
    LET s1 == [s EXCEPT !.snapshotFailed = TRUE]
    IN IF s.op = "publish" THEN [s1 EXCEPT !.pc = "update"] ELSE Finished(s1)
\* os.makedirs / open / write raise: the error leaves _create_backup_file
\* and reaches the except of the workflow
BackupWriteFailed(s) ==
    Failed([s EXCEPT !.snapshotFailed = TRUE], "backup_write")

\* _create_backup_file(dns_zone_id, domain_zone, dns_zone_records, tag)
CreateBackupFile(p) ==
    LET s == inv[p]
        tag == IF s.op = "publish" THEN "before" ELSE "after"
        file == [zone |-> s.domain_zone, tag |-> tag,
                 dns_zone_id |-> s.dns_zone_id, records |-> s.dns_zone_records]
    IN /\ s.pc = "backup"
       /\ \/ /\ backups' = backups \cup {file}
             /\ inv' = [inv EXCEPT ![p] =
                   LET s1 == [s EXCEPT !.snapshots = @ \cup {file}]
                   IN IF s.op = "publish"
                      THEN [s1 EXCEPT !.pc = "update"]
                      ELSE Finished(s1)]
          \/ /\ backups' = backups
             /\ inv' = [inv EXCEPT ![p] = BackupWriteFailed(s)]
       /\ UNCHANGED <<zones, zoneRecords, calls, maxCalls, concurrent, certDomains, patchLog>>

\* new_record_name, _add_txt_record / _delete_txt_record and
\* _update_dns_zone_records
UpdateRecords(p) ==
    LET s == inv[p]
        new_record_name == ReSubZoneSuffix(s.domain_zone, s.record_name)
        computed == IF s.op = "publish"
                    THEN AddTxtRecord(new_record_name, s.record_content, s.dns_zone_records)
                    ELSE DeleteTxtRecord(new_record_name, s.record_content, s.dns_zone_records)
        \* the loop pops the links in place
        new_dns_zone_records == StripLinks(computed)
        \* delete builds its list from the dicts of dns_zone_records itself
        \* (the deepcopy is discarded), so they lose their links too
        fetched == IF s.op = "publish" THEN s.dns_zone_records
                   ELSE StripLinks(s.dns_zone_records)
    IN /\ s.pc = "update"
       /\ \E resp \in Responses :
            LET s1 == [Sent(s, resp) EXCEPT
                          !.nReplaceReq = @ + 1,
                          !.submitted = TRUE,
                          !.nReqAtReplace = s.nReq + 1,
                          !.replaceAccepted = (resp = "ok"),
                          !.new_record_name = new_record_name,
                          !.new_dns_zone_records = new_dns_zone_records,
                          !.dns_zone_records = fetched]
            IN /\ inv' = [inv EXCEPT ![p] =
                     IF RequestRaises(resp)
                     THEN Failed(s1, "provider_update")
                     ELSE [s1 EXCEPT !.pc = IF s.op = "publish" THEN "wait" ELSE "backup"]]
               /\ zoneRecords' = IF resp = "ok"
                                 THEN [zoneRecords EXCEPT ![s.dns_zone_id] = new_dns_zone_records]
                                 ELSE zoneRecords
               /\ patchLog' = IF resp = "ok"
                              THEN Append(patchLog,
                                     [op |-> s.op, dns_zone_id |-> s.dns_zone_id,
                                      name |-> new_record_name, data |-> s.record_content,
                                      fetched |-> s.dns_zone_records,
                                      patchesAtFetch |-> s.patchesAtFetch])
                              ELSE patchLog
       /\ UNCHANGED <<zones, backups, calls, maxCalls, concurrent, certDomains>>

\* bookkeeping of one dig query
Queried(s, out) ==
    [s EXCEPT !.nDnsQueries = @ + 1,
              !.txt_records = ParseDig(out),
              !.seenValue = @ \/ (\E k \in 1..Len(out) : out[k] = Quoted(s.record_content))]

\* _wait_for_record_propagation up to `counter = 15`
WaitFirstQuery(p) ==
    LET s == inv[p]
    IN /\ s.pc = "wait"
       /\ \/ \E out \in DigOutputs :
               inv' = [inv EXCEPT ![p] =
                         [Queried(s, out) EXCEPT !.counter = RetryCounter,
                                                 !.pc = "wait_loop"]]
          \/ inv' = [inv EXCEPT ![p] = Failed(s, "dig_failed")]
       /\ UNCHANGED <<zones, zoneRecords, backups, calls, maxCalls, concurrent, certDomains, patchLog>>

\* one test of the while condition and, when it holds, one loop body
WaitLoop(p) ==
    LET s == inv[p]
    IN /\ s.pc = "wait_loop"
       /\ IF RecordPropagated(s.record_content, s.txt_records)
          THEN inv' = [inv EXCEPT ![p] = Finished(s)]
          ELSE \/ \E out \in DigOutputs :
                    LET s1 == [Queried(s, out) EXCEPT !.counter = @ - 1]
                    IN inv' = [inv EXCEPT ![p] =
                          IF s1.counter = 0 THEN Failed(s1, "timeout") ELSE s1]
               \/ inv' = [inv EXCEPT ![p] = Failed(s, "dig_failed")]
       /\ UNCHANGED <<zones, zoneRecords, backups, calls, maxCalls, concurrent, certDomains, patchLog>>

Next ==
    \E p \in Procs :
        \/ Start(p)
        \/ ResolveZone(p)
        \/ FetchRecords(p)
        \/ CreateBackupFile(p)
        \/ UpdateRecords(p)
        \/ WaitFirstQuery(p)
        \/ WaitLoop(p)

Spec == Init /\ [][Next]_vars

\* names as deep as the zone lookup has attempts, and one label deeper
DeepDomains == {Chain(Attempts), Chain(Attempts + 1)}

InitDeep ==
    /\ \E names \in SUBSET {<<"a">>} : zones = ZoneList(names)
    /\ \E rs \in InitRecordSets :
          zoneRecords = [id \in 1..Len(zones) |-> rs]
    /\ backups = {}
    /\ inv = [p \in Procs |-> IdleLocal]
    /\ calls = 0
    /\ maxCalls = 1
    /\ concurrent = FALSE
    /\ certDomains = DeepDomains
    /\ patchLog = <<>>

\* every call of the client is synchronous: once started, an invocation
\* takes its next step as soon as the request or query it waits for returns
SpecFair == InitDeep /\ [][Next]_vars /\ WF_vars(Next)

(* ---------------- two invocations running side by side ----------------- *)
\* sibling names under one zone, e.g. a wildcard and its base domain
SiblingDomains == {<<"a", Dot, "a">>, <<"b", Dot, "a">>}

InitConcurrent ==
    /\ zones = ZoneList({<<"a">>})
    /\ \E rs \in InitRecordSets :
          zoneRecords = [id \in 1..Len(zones) |-> rs]
    /\ backups = {}
    /\ inv = [p \in Procs |-> IdleLocal]
    /\ calls = 0
    /\ maxCalls = Cardinality(Procs)
    /\ concurrent = TRUE
    /\ certDomains = SiblingDomains
    /\ patchLog = <<>>

\* The propagation wait reads public DNS only: it touches neither the
\* provider nor the other invocation, and a publish is followed here up to
\* the answer to its replacement.
NextConcurrent ==
    \E p \in Procs :
        \/ Start(p)
        \/ ResolveZone(p)
        \/ FetchRecords(p)
        \/ CreateBackupFile(p)
        \/ UpdateRecords(p)

SpecConcurrent == InitConcurrent /\ [][NextConcurrent]_vars

(* ------- one client called again and again with the same arguments ------ *)
InitSequential ==
    /\ zones = ZoneList({<<"a">>})
    /\ \E rs \in InitRecordSets :
          zoneRecords = [id \in 1..Len(zones) |-> rs]
    /\ backups = {}
    /\ inv = [p \in Procs |-> IdleLocal]
    /\ calls = 0
    /\ maxCalls = MaxCalls
    /\ concurrent = FALSE
    /\ certDomains = {<<"a">>}
    /\ patchLog = <<>>

SpecSequential == InitSequential /\ [][Next]_vars

(* ------------- the mutation helpers applied by themselves -------------- *)
HelperPool ==
    { TxtRecord(<<"_">>, ValueV),
      TxtRecord(<<"_">>, ValueW),
      Rec(<<"_">>, "TXT", ValueV, "link", "absent"),
      Rec(<<"a">>, "A", ValueW, "link", "link") }
HelperRecordSets == UNION {[1..n -> HelperPool] : n \in 0..MaxHelperRecords}
HelperNames == {<<"_">>, <<"a">>}
HelperValues == {ValueV, ValueW}

InitHelpers ==
    /\ zones = <<>>
    /\ zoneRecords = <<>>
    /\ backups = {}
    /\ \E rs \in HelperRecordSets, n \in HelperNames, v \in HelperValues :
          inv = [p \in Procs |->
                   IF p = "A"
                   THEN [IdleLocal EXCEPT !.pc = "helper", !.dns_zone_records = rs,
                                          !.new_record_name = n, !.record_content = v]
                   ELSE IdleLocal]
    /\ calls = 0
    /\ maxCalls = 0
    /\ concurrent = FALSE
    /\ certDomains = {}
    /\ patchLog = <<>>

\* _delete_txt_record(name, data, _add_txt_record(name, data, records))
AddThenDelete(p) ==
    LET s == inv[p]
    IN /\ s.pc = "helper"
       /\ inv' = [inv EXCEPT ![p] =
             [s EXCEPT !.pc = "helper_done",
                       !.new_dns_zone_records =
                           DeleteTxtRecord(s.new_record_name, s.record_content,
                              AddTxtRecord(s.new_record_name, s.record_content,
                                           s.dns_zone_records))]]
       /\ UNCHANGED <<zones, zoneRecords, backups, calls, maxCalls, concurrent,
                      certDomains, patchLog>>

NextHelpers == \E p \in Procs : AddThenDelete(p)

SpecHelpers == InitHelpers /\ [][NextHelpers]_vars

(* ======================================================================= *)
(*                               Properties                                *)
(* ======================================================================= *)
KnownNames == {zones[k].name : k \in 1..Len(zones)}

\* the domain without its k leftmost labels: what follows the k-th dot
StrippedBy(d, k) ==
    IF k = 0 THEN {d}
    ELSE {SubSeq(d, j + 1, Len(d)) :
             j \in {m \in 1..Len(d) :
                      d[m] = Dot /\ Cardinality({n \in 1..(m - 1) : d[n] = Dot}) = k - 1}}

MatchingStrips(d) == {k \in 0..3 : StrippedBy(d, k) \cap KnownNames # {}}
FirstMatchingStrip(d) ==
    CHOOSE k \in MatchingStrips(d) : \A j \in MatchingStrips(d) : k <= j

HasTarget(records, name, data) ==
    \E k \in 1..Len(records) :
        /\ records[k].name = name
        /\ records[k].type = "TXT"
        /\ records[k].data = data

\* C1: when every zone-list request was answered successfully, resolution
\* ends at the first of the domain stripped by 0, 1, 2, 3 labels that is a
\* known zone name, after one request per candidate tried, and it fails
\* with the zone-lookup error exactly when none of them is known.
C1_ZoneResolution ==
    \A p \in Procs :
        LET s == inv[p]
        IN (s.pc \notin {"idle", "resolve"} /\ s.allListOk) =>
              /\ s.nListReq <= 4
              /\ IF MatchingStrips(s.domain) = {}
                 THEN s.result = "error" /\ s.error = "zone_lookup"
                 ELSE /\ s.error # "zone_lookup"
                      /\ s.domain_zone \in StrippedBy(s.domain, FirstMatchingStrip(s.domain))
                      /\ s.dns_zone_id \in 1..Len(zones)
                      /\ zones[s.dns_zone_id].name = s.domain_zone
                      /\ s.nListReq = FirstMatchingStrip(s.domain) + 1

\* a zone found only after three strips, every list request answered
C1_Witness ==
    \E p \in Procs :
        /\ inv[p].pc = "fetch"
        /\ inv[p].allListOk
        /\ inv[p].nListReq = 4
        /\ FirstMatchingStrip(inv[p].domain) = 3

\* C2: in a publish the steps run in the order resolve, fetch, 'before'
\* snapshot, replace, poll, each only after the previous one succeeded.
C2_PublishOrder ==
    \A p \in Procs :
        LET s == inv[p]
        IN s.op = "publish" =>
              /\ s.nFetchReq > 0 => s.dns_zone_id \in 1..Len(zones)
              /\ s.snapshots # {} => s.fetchOk
              /\ s.submitted => s.snapshots # {}
              /\ s.nDnsQueries > 0 => s.replaceAccepted

\* C3: a publish that completes successfully has submitted its replacement
\* and has then seen the expected value in the answer of a DNS query.
C3_SuccessOnlyIfSeen ==
    \A p \in Procs :
        LET s == inv[p]
        IN /\ s.nDnsQueries > 0 => s.submitted
           /\ (s.op = "publish" /\ s.result = "ok") => (s.submitted /\ s.seenValue)

\* a publish that succeeded on a later query, after answers without the value
C3_Witness ==
    \E p \in Procs :
        /\ inv[p].op = "publish"
        /\ inv[p].result = "ok"
        /\ inv[p].nDnsQueries >= 3

\* C4: in a remove the steps run in the order resolve, fetch, replace,
\* 'after' snapshot, the snapshot only after the replacement was accepted,
\* and no DNS query is made.
C4_RemoveOrder ==
    \A p \in Procs :
        LET s == inv[p]
        IN s.op = "remove" =>
              /\ s.nDnsQueries = 0
              /\ s.nFetchReq > 0 => s.dns_zone_id \in 1..Len(zones)
              /\ s.submitted => s.nFetchReq > 0
              /\ s.snapshots # {} => s.replaceAccepted

\* C5: the record set a remove submits holds no TXT record with the
\* zone-relative name and the record value, whatever other fields the
\* fetched records carry.
C5_RemovedFromSubmitted ==
    \A p \in Procs :
        LET s == inv[p]
        IN (s.op = "remove" /\ s.submitted) =>
              ~HasTarget(s.new_dns_zone_records, s.new_record_name, s.record_content)

\* C6: once a request to the provider has failed, the invocation sends no
\* further request to the provider and ends in failure.
C6_NoRetry ==
    \A p \in Procs :
        LET s == inv[p]
        IN s.failedAt > 0 =>
              /\ s.nReq = s.failedAt
              /\ s.pc = "done" => s.result = "error"

\* C7: a request answered with a non-2xx status is treated as failed,
\* whatever its body, and the workflow does not go on to its next step.
C7_Non2xxFails ==
    \A p \in Procs :
        LET s == inv[p]
        IN s.lastStatus = "non2xx" =>
              /\ s.lastRaised
              /\ s.pc \in {"resolve", "done"}
              /\ s.pc = "done" => s.result = "error"

\* C8: a publish that fails with the propagation timeout after its
\* replacement was accepted has sent no request since the replacement, and
\* the TXT record it published is in the zone.
C8_NoRollback ==
    \A p \in Procs :
        LET s == inv[p]
        IN (s.op = "publish" /\ s.error = "timeout" /\ s.replaceAccepted) =>
              /\ s.nReq = s.nReqAtReplace
              /\ s.nReplaceReq = 1
              /\ HasTarget(zoneRecords[s.dns_zone_id], s.new_record_name, s.record_content)

\* a publish whose replacement was accepted and that timed out
C8_Witness ==
    \E p \in Procs :
        /\ inv[p].op = "publish"
        /\ inv[p].pc = "done"
        /\ inv[p].error = "timeout"
        /\ inv[p].replaceAccepted
        /\ ~inv[p].seenValue

\* C9: the waiter fails with the timeout only if none of the answers it
\* obtained held the expected value, the last answer included.
C9_TimeoutOnlyIfNeverSeen ==
    \A p \in Procs : inv[p].error = "timeout" => ~inv[p].seenValue

\* C10: the waiter makes at most 15 DNS queries, and it raises the timeout
\* when the 15th has failed to show the expected value.
C10_FifteenQueries ==
    \A p \in Procs :
        /\ inv[p].nDnsQueries <= 15
        /\ inv[p].error = "timeout" => inv[p].nDnsQueries = 15

\* C11: when two publishes of different TXT records meet on one zone and
\* the later accepted one fetched the record set before the earlier one
\* was accepted, both replacements are accepted and the zone then holds the
\* record of the later one and lacks the record of the earlier one.
C11_LostUpdate ==
    \A j \in 1..Len(patchLog) :
        LET k == Len(patchLog)
            e1 == patchLog[j]
            e2 == patchLog[k]
        IN ( /\ j < k
             /\ e1.op = "publish" /\ e2.op = "publish"
             /\ e1.dns_zone_id = e2.dns_zone_id
             /\ e2.patchesAtFetch < j
             /\ <<e1.name, e1.data>> # <<e2.name, e2.data>>
             /\ ~HasTarget(e2.fetched, e1.name, e1.data) )
           => /\ ~HasTarget(zoneRecords[e2.dns_zone_id], e1.name, e1.data)
              /\ HasTarget(zoneRecords[e2.dns_zone_id], e2.name, e2.data)

\* two publishes, both fetched before either was accepted, both accepted,
\* and the record of the first is gone
C11_Witness ==
    /\ Len(patchLog) = 2
    /\ patchLog[1].op = "publish" /\ patchLog[2].op = "publish"
    /\ patchLog[1].dns_zone_id = patchLog[2].dns_zone_id
    /\ patchLog[1].patchesAtFetch = 0 /\ patchLog[2].patchesAtFetch = 0
    /\ patchLog[1].name # patchLog[2].name
    /\ \A p \in Procs : inv[p].replaceAccepted
    /\ ~HasTarget(zoneRecords[patchLog[1].dns_zone_id], patchLog[1].name, patchLog[1].data)

\* C12: an invocation whose snapshot could not be written ends in failure;
\* in a publish no replacement has been sent and the zone still holds the
\* record set that was fetched.
C12_BackupHardDependency ==
    \A p \in Procs :
        LET s == inv[p]
        IN s.snapshotFailed =>
              /\ s.pc = "done"
              /\ s.result = "error"
              /\ s.op = "publish" =>
                    /\ s.nReplaceReq = 0
                    /\ ~s.submitted
                    /\ zoneRecords[s.dns_zone_id] = s.dns_zone_records

\* a publish stopped by the 'before' snapshot over a zone that has records
C12_Witness ==
    \E p \in Procs :
        /\ inv[p].op = "publish"
        /\ inv[p].snapshotFailed
        /\ inv[p].error = "backup_write"
        /\ Len(inv[p].dns_zone_records) > 0

\* a record set with the link sub-fields left out of the comparison
WithoutLink(r) ==
    [r EXCEPT !.configRef = IF @ = "link" THEN "nolink" ELSE @,
              !.targetGroupRef = IF @ = "link" THEN "nolink" ELSE @]
WithoutLinks(records) == [k \in 1..Len(records) |-> WithoutLink(records[k])]

\* C13: link sub-fields apart, publish submits the fetched record set in
\* its order followed by exactly one new TXT record, and remove submits the
\* fetched record set in its order without the records equal to the target,
\* which is the fetched record set itself when the target is absent.
C13_KeepsExisting ==
    \A p \in Procs :
        LET s == inv[p]
            fetched == WithoutLinks(s.dns_zone_records)
            sent == WithoutLinks(s.new_dns_zone_records)
            target == TxtRecord(s.new_record_name, s.record_content)
            NotTarget(r) == r # target
        IN s.submitted =>
              IF s.op = "publish"
              THEN /\ Len(sent) = Len(fetched) + 1
                   /\ SubSeq(sent, 1, Len(fetched)) = fetched
                   /\ sent[Len(sent)] = target
              ELSE /\ sent = SelectSeq(fetched, NotTarget)
                   /\ (\A k \in 1..Len(fetched) : fetched[k] # target) => sent = fetched

\* a remove whose target is absent from a zone that has records
C13_Witness ==
    \E p \in Procs :
        /\ inv[p].op = "remove"
        /\ inv[p].submitted
        /\ Len(inv[p].dns_zone_records) > 1
        /\ ~HasTarget(inv[p].dns_zone_records, inv[p].new_record_name, inv[p].record_content)
        /\ inv[p].new_dns_zone_records = inv[p].dns_zone_records

\* C15: no record of a submitted record set has a link in its configRef or
\* in its targetGroupRef, and apart from the links every record is as it
\* was in the record set given (seen on publish, which keeps that set).
C15_LinksStripped ==
    \A p \in Procs :
        LET s == inv[p]
        IN s.submitted =>
              /\ \A k \in 1..Len(s.new_dns_zone_records) :
                    /\ s.new_dns_zone_records[k].configRef # "link"
                    /\ s.new_dns_zone_records[k].targetGroupRef # "link"
              /\ s.op = "publish" =>
                    \A k \in 1..Len(s.dns_zone_records) :
                        LET old == s.dns_zone_records[k]
                            new == s.new_dns_zone_records[k]
                        IN /\ new.name = old.name
                           /\ new.type = old.type
                           /\ new.data = old.data
                           /\ (new.configRef = "absent") = (old.configRef = "absent")
                           /\ (new.targetGroupRef = "absent") = (old.targetGroupRef = "absent")

\* C16: the name computed for the record, followed by '.' and the resolved
\* zone name, is the fully-qualified record name, in publish and in remove,
\* and the record publish appends is {name, TXT, data} with that name.
C16_ZoneRelativeName ==
    \A p \in Procs :
        LET s == inv[p]
        IN s.submitted =>
              /\ s.new_record_name \o <<Dot>> \o s.domain_zone = s.record_name
              /\ s.op = "publish" =>
                    s.new_dns_zone_records[Len(s.new_dns_zone_records)]
                        = TxtRecord(s.new_record_name, s.record_content)

\* a zone of two labels found under a longer domain
C16_Witness ==
    \E p \in Procs :
        /\ inv[p].submitted
        /\ HasDot(inv[p].domain_zone)
        /\ inv[p].domain_zone # inv[p].domain
        /\ Len(inv[p].new_record_name) > 1

\* C18: the 'after' snapshot of a remove holds the record set that was
\* submitted, without the removed TXT record; the 'before' snapshot of a
\* publish holds the record set as fetched, without the new TXT record.
C18_SnapshotContents ==
    \A p \in Procs :
        LET s == inv[p]
            target == TxtRecord(s.new_record_name, s.record_content)
        IN \A f \in s.snapshots :
              /\ f.tag = "after" =>
                    /\ f.records = s.new_dns_zone_records
                    /\ \A k \in 1..Len(f.records) : f.records[k] # target
              /\ f.tag = "before" =>
                    /\ f.records = s.dns_zone_records
                    /\ s.submitted =>
                          Len(f.records) + 1 = Len(s.new_dns_zone_records)

CountOf(records, r) == Cardinality({k \in 1..Len(records) : records[k] = r})
SameMultiset(a, b) ==
    /\ Len(a) = Len(b)
    /\ \A k \in 1..Len(a) : CountOf(a, a[k]) = CountOf(b, a[k])

\* C14 as stated: add followed by remove with the same name and value
\* returns the original record set as a multiset, whatever it contains.
C14_RoundTripAlways ==
    \A p \in Procs :
        inv[p].pc = "helper_done" =>
            SameMultiset(inv[p].new_dns_zone_records, inv[p].dns_zone_records)

\* C14 amended: add followed by remove returns the original record set
\* without its records equal to {name, TXT, value}; it is the original
\* record set, in its order, when the original holds no such record.
C14_RoundTrip ==
    \A p \in Procs :
        LET s == inv[p]
            target == TxtRecord(s.new_record_name, s.record_content)
            NotTarget(r) == r # target
        IN s.pc = "helper_done" =>
              /\ s.new_dns_zone_records = SelectSeq(s.dns_zone_records, NotTarget)
              /\ CountOf(s.dns_zone_records, target) = 0 =>
                    /\ s.new_dns_zone_records = s.dns_zone_records
                    /\ SameMultiset(s.new_dns_zone_records, s.dns_zone_records)

\* a round trip over records of the same name with another value or a link
C14_Witness ==
    \E p \in Procs :
        LET s == inv[p]
        IN /\ s.pc = "helper_done"
           /\ Len(s.dns_zone_records) = 2
           /\ CountOf(s.dns_zone_records, TxtRecord(s.new_record_name, s.record_content)) = 0
           /\ HasTarget(s.dns_zone_records, s.new_record_name, s.record_content)
           /\ s.new_dns_zone_records = s.dns_zone_records

RemovesIn(log) == {k \in 1..Len(log) : log[k].op = "remove"}
LastRemoveIn(log) == CHOOSE k \in RemovesIn(log) : \A j \in RemovesIn(log) : j <= k
CountByFields(records, name, data) ==
    Cardinality({k \in 1..Len(records) :
                    /\ records[k].name = name
                    /\ records[k].type = "TXT"
                    /\ records[k].data = data})

\* C17: sequential invocations with the same arguments, every accepted
\* patch stored as submitted: n publishes on a zone without the record
\* leave n TXT records of that name and value (each publish adds one to
\* whatever the zone held), and after a remove the zone holds as many of
\* them as publishes followed it: none right after the remove.
C17_NoDeduplication ==
    patchLog # <<>> =>
        LET first == patchLog[1]
            last == patchLog[Len(patchLog)]
            target == TxtRecord(first.name, first.data)
            stored == zoneRecords[first.dns_zone_id]
        IN /\ RemovesIn(patchLog) = {} =>
                /\ CountOf(stored, target)
                      = CountOf(first.fetched, target) + Len(patchLog)
                /\ ~HasTarget(first.fetched, first.name, first.data) =>
                      CountByFields(stored, first.name, first.data) = Len(patchLog)
           /\ RemovesIn(patchLog) # {} =>
                CountOf(stored, target) = Len(patchLog) - LastRemoveIn(patchLog)
           /\ last.op = "remove" => CountOf(stored, target) = 0

\* two publishes have left two records and the remove has removed both
C17_Witness ==
    /\ Len(patchLog) = 3
    /\ patchLog[1].op = "publish"
    /\ patchLog[2].op = "publish"
    /\ patchLog[3].op = "remove"
    /\ CountByFields(patchLog[3].fetched, patchLog[1].name, patchLog[1].data) = 2
    /\ ~HasTarget(zoneRecords[patchLog[1].dns_zone_id], patchLog[1].name, patchLog[1].data)

WithinBudget(s) ==
    /\ s.nListReq <= 4
    /\ s.nFetchReq <= 1
    /\ s.nReplaceReq <= 1
    /\ s.nDnsQueries <= 16
    /\ s.pc = "done" =>
          \/ s.result = "ok" /\ s.error = "none"
          \/ s.result = "error" /\ s.error # "none"

\* C19: every started invocation reaches its end, with the result ok or
\* with exactly one error, whatever the provider and the resolver answer;
\* it sends at most 4 zone-list requests, at most one zone-fetch request
\* and at most one replace request, and makes at most 16 DNS queries.
C19_Terminates ==
    /\ [](\A p \in Procs : WithinBudget(inv[p]))
    /\ \A p \in Procs : (inv[p].pc # "idle") ~> (inv[p].pc = "done")

\* a publish that used every attempt of the zone lookup and every query
\* of the poll loop, and ended in the timeout
C19_Witness ==
    \E p \in Procs :
        /\ inv[p].pc = "done"
        /\ inv[p].error = "timeout"
        /\ inv[p].nListReq = 4
        /\ inv[p].nFetchReq = 1
        /\ inv[p].nReplaceReq = 1
        /\ inv[p].nDnsQueries = 16
        /\ ~inv[p].seenValue

====
